---- MODULE Spec2Model ----
(***************************************************************************)
(* Connect4 (epoulton/Connect4): the game manager Game, the board State,   *)
(* the StateView handed to agents and the Outcome record of                *)
(* src/connect4/game.py.                                                   *)
(*                                                                         *)
(* Python values are written as follows.  None is the string "None".       *)
(* External tokens are strings ("X", "O", "Z").  The internal ids that     *)
(* State.__init__ takes from range(len(external_tokens)) are written as    *)
(* the decimal strings "0", "1", ... so that a cell of a list can hold     *)
(* None, an id or (in a StateView) a token.  A Python list is a function   *)
(* on 0 .. len-1, indexed as Python indexes it.  A value whose type the    *)
(* code tests with isinstance (the column of an Action, the arguments of   *)
(* Game) is a record [type, value]: PyInt(3), PyBool(TRUE), PyStr("1"),    *)
(* PyNone; a list or tuple argument is [type, items].  Two tokens can be   *)
(* equal and yet different objects: identities tells them apart; one      *)
(* Agent object can be listed twice: instances tells.                      *)
(***************************************************************************)
EXTENDS Integers, Sequences, FiniteSets, TLC

VARIABLES
    pc,             \* position of the program: see the specifications below
    agents,         \* Game._agents: the tokens of the agents, in registration order
    identities,     \* agent index -> the first agent whose token is the same object
    instances,      \* agent index -> the first index of Game._agents holding the same Agent object
    board_size,     \* Game._board_size / (State._n_rows, State._n_columns)
    token_map,      \* State._token_map: external token -> internal id
    heap,           \* the list objects alive: reference -> list contents
    cycle,          \* play(): itertools.cycle(random.sample(...)): [items, pos]
    current_agent,  \* play(): current_agent (index into agents), 0 before the first turn
    asked,          \* the agents asked for an action so far, one per turn
    view,           \* the StateView the current agent holds: [board_size, board (a reference)]
    tampered,       \* writes the current agent made to its view's board
    result,         \* play(): result, the last value of state.check_for_outcome()
    agent_outcomes, \* Outcome.agent_outcomes: Agent object (its first index) -> None / WIN / LOSE / DRAW
    record,         \* Outcome.record: sequence of <<token, action>>
    error,          \* the exception that left the last call, or None
    notified,       \* agent index -> number of notify_outcome calls received
    handed,         \* agent index -> the [agent_outcomes, record] it was notified with
    returned,       \* the value play() returned, "NoReturn" while it has not
    call,           \* the last State.place_token call: <<column, token>>, <<>> before it
    selected,       \* the last action a select_action call returned
    yielded,        \* the lines the last direct _generate_lines call yielded
    legacy_outcome  \* src/connect4.py: play(): outcome, the last value of check_for_end()

vars == <<pc, agents, identities, instances, board_size, token_map, heap, cycle, current_agent, asked, view,
          tampered, result, agent_outcomes, record, error, notified, handed, returned, call,
          selected, yielded, legacy_outcome>>

None == "None"

\* Outcomes and Actions (enum members)
WIN == "WIN"
LOSE == "LOSE"
DRAW == "DRAW"
PLACE == "PLACE"

(***************************************************************************)
(* Bounds of the model.                                                    *)
(***************************************************************************)
\* the external tokens agents are built with
Tokens == {"X", "O", "Z"}
\* the games played: the agents' tokens in registration order and the board size
\* (rows, columns)
GameSetups ==
    {<<<<"X", "O">>, <<4, 2>>>>, <<<<"X", "O">>, <<1, 4>>>>,
     <<<<"O", "O">>, <<4, 2>>>>, <<<<"O", "O">>, <<1, 4>>>>,
     <<<<"X", "O", "Z">>, <<3, 2>>>>, <<<<"X", "O", "Z">>, <<2, 2>>>>,
     <<<<"X", "O", "O">>, <<1, 5>>>>}
\* the State objects exercised directly: the external tokens and the board size
StateSetups ==
    {<<<<"X", "O">>, <<4, 2>>>>, <<<<"X", "O">>, <<2, 4>>>>, <<<<"X", "O">>, <<3, 3>>>>,
     <<<<"O", "O">>, <<4, 2>>>>, <<<<"X", "O", "Z">>, <<2, 2>>>>}
\* the board sizes check_for_outcome is run on with every content
SmallSizes == {<<1, 4>>, <<4, 1>>, <<2, 4>>, <<4, 2>>, <<3, 3>>}
\* the board sizes check_for_outcome is run on with every content that uses at most
\* two of the three cell values None, "0", "1"
LargeSizes == {<<4, 4>>}
\* the writes an agent makes to the board of a view it was handed, per turn
MaxTamper == 1
\* an action kind that is not Actions.PLACE
OtherKind == "REMOVE"

(***************************************************************************)
(* Python lists.                                                           *)
(***************************************************************************)
PyLen(l) == Cardinality(DOMAIN l)

\* l[i] is defined: -len <= i < len
PyInRange(l, i) == -PyLen(l) <= i /\ i < PyLen(l)

\* the position l[i] denotes (negative indices count from the end)
PyPos(l, i) == IF i < 0 THEN i + PyLen(l) ELSE i

PyGet(l, i) == l[PyPos(l, i)]

PySet(l, i, v) == [l EXCEPT ![PyPos(l, i)] = v]

Min(a, b) == IF a < b THEN a ELSE b
Max(a, b) == IF a > b THEN a ELSE b

\* l[start:stop:step] for step > 0, as a sequence (1-indexed)
PySlice(l, start, stop, step) ==
    LET len == PyLen(l)
        lo == IF start < 0 THEN Max(start + len, 0) ELSE Min(start, len)
        hi == IF stop < 0 THEN Max(stop + len, 0) ELSE Min(stop, len)
        n == IF hi <= lo THEN 0 ELSE (hi - lo + step - 1) \div step
    IN [k \in 1..n |-> l[lo + (k - 1) * step]]

\* [v] * n
PyRepeat(v, n) == [i \in 0..(n - 1) |-> v]

Range(s) == {s[i] : i \in DOMAIN s}

(***************************************************************************)
(* Python values whose type is tested.                                     *)
(***************************************************************************)
PyInt(i) == [type |-> "int", value |-> i]
PyBool(b) == [type |-> "bool", value |-> b]
PyStr(str) == [type |-> "str", value |-> str]
PyNone == [type |-> "NoneType", value |-> None]
\* a list, a tuple or another container with its elements in order
PyList(type, items) == [type |-> type, items |-> items]

\* isinstance(v, int): bool is a subclass of int
IsInt(v) == v.type \in {"int", "bool"}

\* the number an int or a bool is in arithmetic and comparisons
IntOf(v) == IF v.type = "bool" THEN (IF v.value THEN 1 ELSE 0) ELSE v.value

\* isinstance(v, list) or isinstance(v, tuple)
IsListOrTuple(v) == v.type \in {"list", "tuple"}

(***************************************************************************)
(* State                                                                   *)
(***************************************************************************)
\* the id State.__init__ gives to position i of external_tokens
InternalId(i) == ToString(i)

\* State.__init__: {token: value for token, value in zip(tokens, range(len(tokens)))};
\* a token that occurs twice keeps the value of its last occurrence
TokenMap(external_tokens) ==
    [t \in Range(external_tokens) |->
        LET last == CHOOSE i \in DOMAIN external_tokens :
                        /\ external_tokens[i] = t
                        /\ \A j \in DOMAIN external_tokens :
                               external_tokens[j] = t => j <= i
        IN InternalId(last - 1)]

\* self._token_map.inverse[id]
Inverse(tm, id) == CHOOSE t \in DOMAIN tm : tm[t] = id

\* State.__init__: the empty board
EmptyBoard(size) == PyRepeat(None, size[1] * size[2])

\* the translation of one cell in expose_view
ExposeCell(tm, cell) == IF cell = None THEN cell ELSE Inverse(tm, cell)

\* the list expose_view builds
ViewBoard(tm, board) == [i \in DOMAIN board |-> ExposeCell(tm, board[i])]

\* ScanColumn stopping at the first open cell instead of the last one
ScanColumn_first(board, n_rows, n_columns, column, row, lowest) ==
    LET i == row * n_columns + column - 1
    IN IF row >= n_rows THEN [lowest |-> lowest, error |-> None]
       ELSE IF ~PyInRange(board, i) THEN [lowest |-> lowest, error |-> "IndexError"]
       ELSE IF PyGet(board, i) # None THEN [lowest |-> lowest, error |-> None]
       ELSE [lowest |-> row, error |-> None]

\* the scan of place_token from `row` on: [lowest, error]; lowest is -1 for None
RECURSIVE ScanColumn(_, _, _, _, _, _)
ScanColumn(board, n_rows, n_columns, column, row, lowest) ==
    IF row >= n_rows THEN [lowest |-> lowest, error |-> None]
    ELSE LET i == row * n_columns + column - 1
         IN IF ~PyInRange(board, i) THEN [lowest |-> lowest, error |-> "IndexError"]
            ELSE IF PyGet(board, i) # None THEN [lowest |-> lowest, error |-> None]
            ELSE ScanColumn(board, n_rows, n_columns, column, row + 1, row)

\* place_token writing into the top cell of a full column instead of raising
place_token_overwrite(board, size, tm, column, token) ==
    LET scan == ScanColumn(board, size[1], size[2], column, 0, -1)
        row == IF scan.lowest = -1 THEN 0 ELSE scan.lowest
    IN IF scan.error # None THEN [board |-> board, error |-> scan.error]
       ELSE [board |-> PySet(board, row * size[2] + column - 1, tm[token]), error |-> None]

\* place_token writing one row above the lowest open cell when there is one
place_token_rowabove(board, size, tm, column, token) ==
    LET scan == ScanColumn(board, size[1], size[2], column, 0, -1)
        row == IF scan.lowest > 0 THEN scan.lowest - 1 ELSE scan.lowest
    IN IF scan.error # None THEN [board |-> board, error |-> scan.error]
       ELSE IF scan.lowest = -1 THEN [board |-> board, error |-> "ActionError"]
       ELSE [board |-> PySet(board, row * size[2] + column - 1, tm[token]), error |-> None]

\* State.place_token(column, token): [board, error]
place_token(board, size, tm, column, token) ==
    LET n_rows == size[1]
        n_columns == size[2]
        scan == ScanColumn(board, n_rows, n_columns, column, 0, -1)
    IN IF scan.error # None THEN [board |-> board, error |-> scan.error]
       ELSE IF scan.lowest = -1 THEN [board |-> board, error |-> "ActionError"]
       ELSE IF token \notin DOMAIN tm THEN [board |-> board, error |-> "KeyError"]
       ELSE [board |-> PySet(board, scan.lowest * n_columns + column - 1, tm[token]),
             error |-> None]

\* the rows scanned from every column, the last three included
HorizontalLines_everycolumn(board, n_rows, n_columns) ==
    [k \in 1..(n_rows * n_columns) |->
        LET row == (k - 1) \div n_columns
            column == (k - 1) % n_columns
        IN PySlice(board, row * n_columns + column, row * n_columns + column + 4, 1)]

\* the four families of State._generate_lines, each in its loop order
HorizontalLines(board, n_rows, n_columns) ==
    LET w == Max(n_columns - 3, 0)
    IN [k \in 1..(n_rows * w) |->
           LET row == (k - 1) \div w
               column == (k - 1) % w
           IN PySlice(board, row * n_columns + column, row * n_columns + column + 4, 1)]

VerticalLines(board, n_rows, n_columns) ==
    LET h == Max(n_rows - 3, 0)
    IN [k \in 1..(h * n_columns) |->
           LET row == (k - 1) \div n_columns
               column == (k - 1) % n_columns
           IN PySlice(board, row * n_columns + column,
                      (row + 4) * n_columns + column, n_columns)]

DownRightLines(board, n_rows, n_columns) ==
    LET h == Max(n_rows - 3, 0)
        w == Max(n_columns - 3, 0)
    IN [k \in 1..(h * w) |->
           LET row == (k - 1) \div w
               column == (k - 1) % w
           IN PySlice(board, row * n_columns + column,
                      (row + 4) * n_columns + column + 4, n_columns + 1)]

DownLeftLines(board, n_rows, n_columns) ==
    LET h == Max(n_rows - 3, 0)
        w == Max(n_columns - 3, 0)
    IN [k \in 1..(h * w) |->
           LET row == (k - 1) \div w
               column == 3 + ((k - 1) % w)
           IN PySlice(board, row * n_columns + column,
                      (row + 4) * n_columns + column - 4, n_columns - 1)]

\* State._generate_lines: the lines in the order they are yielded
generate_lines(board, size) ==
    HorizontalLines(board, size[1], size[2]) \o VerticalLines(board, size[1], size[2])
        \o DownRightLines(board, size[1], size[2]) \o DownLeftLines(board, size[1], size[2])

\* the test of check_for_outcome on one line
LineWins(line) == line[1] # None /\ Cardinality(Range(line)) = 1

\* check_for_outcome testing for the full board before it scans the lines
check_for_outcome_drawfirst(board, size, tm) ==
    LET lines == generate_lines(board, size)
        winning == {k \in DOMAIN lines : LineWins(lines[k])}
    IN IF None \notin Range(board) THEN <<DRAW, None>>
       ELSE IF winning # {}
       THEN LET first == CHOOSE k \in winning : \A j \in winning : k <= j
            IN <<WIN, Inverse(tm, lines[first][1])>>
       ELSE <<None, None>>

\* State.check_for_outcome: <<outcome, winning_token>>
check_for_outcome(board, size, tm) ==
    LET lines == generate_lines(board, size)
        winning == {k \in DOMAIN lines : LineWins(lines[k])}
    IN IF winning # {}
       THEN LET first == CHOOSE k \in winning : \A j \in winning : k <= j
            IN <<WIN, Inverse(tm, lines[first][1])>>
       ELSE IF None \notin Range(board) THEN <<DRAW, None>>
       ELSE <<None, None>>


\* agent in self._agents: the positions of Game._agents
AgentIds(ags) == 1..Len(ags)

\* the ways the tokens of the agents can be shared objects: each agent is given
\* the first agent whose token is the same object as its own (equal, then)
Identities(ags) ==
    {f \in [AgentIds(ags) -> AgentIds(ags)] :
        \A a \in AgentIds(ags) : f[a] <= a /\ f[f[a]] = f[a] /\ ags[f[a]] = ags[a]}

\* the ways one Agent object can be listed more than once: each index is given
\* the first index holding the same object (whose token is the same object, then)
Instances(ags, ids) ==
    {g \in [AgentIds(ags) -> AgentIds(ags)] :
        \A a \in AgentIds(ags) : g[a] <= a /\ g[g[a]] = g[a] /\ ids[g[a]] = ids[a]}

\* the keys of Outcome.agent_outcomes: the Agent objects, one key for an object
\* listed more than once
AgentKeys(ags, inst) == {inst[a] : a \in AgentIds(ags)}

\* Outcome.__init__: {agent: None for agent in agents}
NewAgentOutcomes(ags, inst) == [a \in AgentKeys(ags, inst) |-> None]

\* append_to_record replacing the record by its newest entry
append_to_record_overwrite(rec, token, action) == <<<<token, action>>>>

\* Outcome.append_to_record
append_to_record(rec, token, action) == Append(rec, <<token, action>>)

(***************************************************************************)
(* The list objects.  State._board is one list for the whole game; every   *)
(* expose_view call builds a new list, named here by the turn it is built  *)
(* in.  A view the agent has returned from is no longer read by anything.  *)
(***************************************************************************)
BoardRef == 0

board == heap[BoardRef]

OnlyBoard(b) == BoardRef :> b

\* expose_view handing out the board list itself instead of a translated copy
expose_view_alias(hp, tm, size, ref) ==
    [view |-> [board_size |-> size, board |-> BoardRef], heap |-> OnlyBoard(hp[BoardRef])]

\* State.expose_view: the StateView, and the heap with its new list
expose_view(hp, tm, size, ref) ==
    [view |-> [board_size |-> size, board |-> ref],
     heap |-> OnlyBoard(hp[BoardRef]) @@ (ref :> ViewBoard(tm, hp[BoardRef]))]

(***************************************************************************)
(* Game.play                                                               *)
(***************************************************************************)
\* the orders random.sample(self._agents, len(self._agents)) can return
Samples(ags) ==
    {p \in [1..Len(ags) -> AgentIds(ags)] : \A a \in AgentIds(ags) : \E i \in 1..Len(ags) : p[i] = a}

\* next(agents) that does not advance
NextAgent_stuck(cyc) == [agent |-> cyc.items[cyc.pos + 1], cycle |-> cyc]

\* next(agents) on the itertools.cycle: the agent and the advanced cycle
NextAgent(cyc) ==
    [agent |-> cyc.items[cyc.pos + 1],
     cycle |-> [cyc EXCEPT !.pos = (cyc.pos + 1) % Len(cyc.items)]]

\* the structural checks without the test of the column's range
ValidateAction_nocolumn(action, size) ==
    IF action.action # PLACE THEN "ValueError"
    ELSE IF ~IsInt(action.place_column) THEN "TypeError"
    ELSE None

\* the structural checks of play() on the returned action: the error raised, or None
ValidateAction(action, size) ==
    IF action.action # PLACE THEN "ValueError"
    ELSE IF ~IsInt(action.place_column) THEN "TypeError"
    ELSE IF IntOf(action.place_column) < 1 \/ IntOf(action.place_column) > size[2]
    THEN "ValueError"
    ELSE None

\* the agent whose token object is the key of the token map for `token`: the
\* dict built by State.__init__ keeps the key of the first of several equal tokens
KeyHolder(ags, token) ==
    CHOOSE i \in AgentIds(ags) : ags[i] = token /\ \A j \in AgentIds(ags) : ags[j] = token => i <= j

\* the per-agent results play() sets for a terminal result; on WIN result[1] is
\* the key object of the token map and `agent.token is result[1]` tests identity
FinalOutcomes(ags, ids, inst, res) ==
    IF res[1] = WIN
    THEN [a \in AgentKeys(ags, inst) |->
             IF ids[a] = ids[KeyHolder(ags, res[2])] THEN WIN ELSE LOSE]
    ELSE [a \in AgentKeys(ags, inst) |-> DRAW]

\* the loop with no break at all
LoopContinues_always(res) == TRUE

\* the loop with no break on a win
LoopContinues_nowin(res) == res[1] # DRAW

\* the loop with no break on a draw
LoopContinues_nodraw(res) == res[1] # WIN

\* the loop runs again: neither branch with a break was taken
LoopContinues(res) == res[1] # WIN /\ res[1] # DRAW

\* what play() evaluates to once the notifications are done: it has no return statement
PlayReturnValue(outcome) == None

\* the columns and kinds an agent may answer with
ColumnMargin == 1
AgentColumns(size) == (1 - ColumnMargin)..(size[2] + ColumnMargin)
\* columns that are not ints, and a bool
OtherColumns == {PyStr("1"), PyNone, PyBool(TRUE)}
AgentActions(size) ==
    [action : {PLACE, OtherKind},
     place_column : {PyInt(c) : c \in AgentColumns(size)} \cup OtherColumns]

\* the top of the loop: next(agents), state.expose_view(), select_action is called
LoopTop(cyc, hp) ==
    LET n == NextAgent(cyc)
        ev == expose_view(hp, token_map', board_size, Len(asked) + 1)
    IN /\ cycle' = n.cycle
       /\ current_agent' = n.agent
       /\ asked' = Append(asked, n.agent)
       /\ view' = ev.view
       /\ heap' = ev.heap
       /\ tampered' = 0
       /\ pc' = "Selecting"

NoView == [board_size |-> <<0, 0>>, board |-> BoardRef]

NoAction == [action |-> None, place_column |-> PyNone]

\* Game.__init__ has stored the agents and the board size
InitGame ==
    /\ pc = "NotStarted"
    /\ \E setup \in GameSetups : agents = setup[1] /\ board_size = setup[2]
    /\ identities \in Identities(agents)
    /\ instances \in Instances(agents, identities)
    /\ token_map = <<>>
    /\ heap = <<>>
    /\ cycle = [items |-> <<>>, pos |-> 0]
    /\ current_agent = 0
    /\ asked = <<>>
    /\ view = NoView
    /\ tampered = 0
    /\ result = <<None, None>>
    /\ agent_outcomes = <<>>
    /\ record = <<>>
    /\ error = None
    /\ notified = [a \in AgentIds(agents) |-> 0]
    /\ handed = <<>>
    /\ returned = "NoReturn"
    /\ call = <<>>
    /\ selected = NoAction
    /\ yielded = <<>>
    /\ legacy_outcome = None

\* play() up to the first select_action call
Start ==
    /\ pc = "NotStarted"
    /\ \E sample \in Samples(agents) :
         /\ token_map' = TokenMap(agents)
         /\ agent_outcomes' = NewAgentOutcomes(agents, instances)
         /\ record' = <<>>
         /\ LoopTop([items |-> sample, pos |-> 0], OnlyBoard(EmptyBoard(board_size)))
    /\ UNCHANGED <<agents, identities, instances, board_size, result, error, notified, handed, returned, call,
                   selected, yielded, legacy_outcome>>

\* the agent, inside select_action, writes its token into a cell of its view's board list
Tamper ==
    /\ pc = "Selecting"
    /\ tampered < MaxTamper
    /\ \E i \in DOMAIN heap[view.board] :
         heap' = [heap EXCEPT ![view.board] = PySet(@, i, agents[current_agent])]
    /\ tampered' = tampered + 1
    /\ UNCHANGED <<pc, agents, identities, instances, board_size, token_map, cycle, current_agent, asked, view,
                   result, agent_outcomes, record, error, notified, handed, returned, call,
                   selected, yielded, legacy_outcome>>

\* select_action returns `action`: play() from there to the next call into an agent
AgentReturns(action) ==
    /\ pc = "Selecting"
    /\ UNCHANGED <<agents, identities, instances, board_size, token_map, notified, handed, returned, yielded, legacy_outcome>>
    /\ selected' = action
    /\ LET invalid == ValidateAction(action, board_size)
           token == agents[current_agent]
           column == IntOf(action.place_column)
           placed == place_token(board, board_size, token_map, column, token)
       IN IF invalid # None
          THEN /\ pc' = "Raised"
               /\ error' = invalid
               /\ heap' = OnlyBoard(board)
               /\ UNCHANGED <<cycle, current_agent, asked, view, tampered, result,
                              agent_outcomes, record, call>>
          ELSE IF placed.error # None
          THEN /\ pc' = "Raised"
               /\ error' = placed.error
               /\ heap' = OnlyBoard(placed.board)
               /\ call' = <<column, token>>
               /\ UNCHANGED <<cycle, current_agent, asked, view, tampered, result,
                              agent_outcomes, record>>
          ELSE LET res == check_for_outcome(placed.board, board_size, token_map)
               IN /\ call' = <<column, token>>
                  /\ record' = append_to_record(record, token, action)
                  /\ result' = res
                  /\ error' = None
                  /\ IF LoopContinues(res)
                     THEN /\ LoopTop(cycle, OnlyBoard(placed.board))
                          /\ UNCHANGED agent_outcomes
                     ELSE /\ agent_outcomes' = FinalOutcomes(agents, identities, instances, res)
                          /\ heap' = OnlyBoard(placed.board)
                          /\ pc' = "Notifying"
                          /\ UNCHANGED <<cycle, current_agent, asked, view, tampered>>

\* the loop over self._agents after the game loop: the next notify_outcome call;
\* after the last one play() returns
Notify ==
    /\ pc = "Notifying"
    /\ LET a == Len(handed) + 1
           outcome == [agent_outcomes |-> agent_outcomes, record |-> record]
       IN /\ notified' = [notified EXCEPT ![a] = @ + 1]
          /\ handed' = Append(handed, outcome)
          /\ IF a = Len(agents)
             THEN pc' = "Returned" /\ returned' = PlayReturnValue(outcome)
             ELSE pc' = "Notifying" /\ UNCHANGED returned
    /\ UNCHANGED <<agents, identities, instances, board_size, token_map, heap, cycle, current_agent, asked, view,
                   tampered, result, agent_outcomes, record, error, call, selected, yielded,
                   legacy_outcome>>

Next ==
    \/ Start
    \/ Tamper
    \/ \E action \in AgentActions(board_size) : AgentReturns(action)
    \/ Notify

Spec == InitGame /\ [][Next]_vars

(***************************************************************************)
(* play() with agents whose methods raise, as those of the base Agent do.  *)
(***************************************************************************)
\* what an agent's select_action raises: the base Agent's raises
\* NotImplementedError, CLIAgent's lets the EOFError of input() through
AgentErrors == {"NotImplementedError", "EOFError"}

\* what an agent's notify_outcome raises: the base Agent's raises
\* NotImplementedError
NotifyErrors == {"NotImplementedError"}

\* select_action raises `raised` instead of returning, which ends play()
AgentRaises(raised) ==
    /\ pc = "Selecting"
    /\ pc' = "Raised"
    /\ error' = raised
    /\ heap' = OnlyBoard(board)
    /\ UNCHANGED <<agents, identities, instances, board_size, token_map, cycle, current_agent, asked, view,
                   tampered, result, agent_outcomes, record, notified, handed, returned,
                   call, selected, yielded, legacy_outcome>>

\* the next notify_outcome call of the loop over self._agents raises `raised`,
\* which ends play(): the agents after this one are not called
NotifyRaises(raised) ==
    /\ pc = "Notifying"
    /\ LET a == Len(handed) + 1
           outcome == [agent_outcomes |-> agent_outcomes, record |-> record]
       IN /\ notified' = [notified EXCEPT ![a] = @ + 1]
          /\ handed' = Append(handed, outcome)
    /\ pc' = "Raised"
    /\ error' = raised
    /\ UNCHANGED <<agents, identities, instances, board_size, token_map, heap, cycle, current_agent, asked, view,
                   tampered, result, agent_outcomes, record, returned, call, selected,
                   yielded, legacy_outcome>>

NextAgents ==
    \/ Start
    \/ Tamper
    \/ \E action \in AgentActions(board_size) : AgentReturns(action)
    \/ \E raised \in AgentErrors : AgentRaises(raised)
    \/ Notify
    \/ \E raised \in NotifyErrors : NotifyRaises(raised)

SpecAgents == InitGame /\ [][NextAgents]_vars


(***************************************************************************)
(* State used directly: any sequence of place_token calls on a new State.  *)
(***************************************************************************)
InitState ==
    /\ pc = "State"
    /\ \E setup \in StateSetups : agents = setup[1] /\ board_size = setup[2]
    /\ identities = <<>>
    /\ instances = <<>>
    /\ token_map = TokenMap(agents)
    /\ heap = OnlyBoard(EmptyBoard(board_size))
    /\ cycle = [items |-> <<>>, pos |-> 0]
    /\ current_agent = 0
    /\ asked = <<>>
    /\ view = NoView
    /\ tampered = 0
    /\ result = <<None, None>>
    /\ agent_outcomes = <<>>
    /\ record = <<>>
    /\ error = None
    /\ notified = <<>>
    /\ handed = <<>>
    /\ returned = "NoReturn"
    /\ call = <<>>
    /\ selected = NoAction
    /\ yielded = <<>>
    /\ legacy_outcome = None

\* one call state.place_token(column, token)
StatePlace(column, token) ==
    /\ pc = "State"
    /\ LET placed == place_token(board, board_size, token_map, column, token)
       IN /\ heap' = OnlyBoard(placed.board)
          /\ error' = placed.error
    /\ call' = <<column, token>>
    /\ UNCHANGED <<pc, agents, identities, instances, board_size, token_map, cycle, current_agent, asked, view,
                   tampered, result, agent_outcomes, record, notified, handed, returned,
                   selected, yielded, legacy_outcome>>

\* calls with a column of the board
NextState ==
    \E column \in 1..board_size[2], token \in Range(agents) : StatePlace(column, token)

SpecState == InitState /\ [][NextState]_vars

\* calls with any column an agent may name
NextStateAny ==
    \E column \in AgentColumns(board_size), token \in Range(agents) : StatePlace(column, token)

SpecStateAny == InitState /\ [][NextStateAny]_vars

(***************************************************************************)
(* check_for_outcome on arbitrary board contents.                          *)
(***************************************************************************)
BoardTokens == <<"X", "O">>

CellValues == {None} \cup Range(TokenMap(BoardTokens))

Boards(size) ==
    LET cells == 0..(size[1] * size[2] - 1)
    IN IF size \in SmallSizes THEN [cells -> CellValues]
       ELSE UNION {[cells -> two] : two \in {s \in SUBSET CellValues : Cardinality(s) = 2}}

InitBoards ==
    /\ pc = "Board"
    /\ agents = BoardTokens
    /\ identities = <<>>
    /\ instances = <<>>
    /\ board_size \in SmallSizes \cup LargeSizes
    /\ token_map = TokenMap(agents)
    /\ \E b \in Boards(board_size) : heap = OnlyBoard(b)
    /\ cycle = [items |-> <<>>, pos |-> 0]
    /\ current_agent = 0
    /\ asked = <<>>
    /\ view = NoView
    /\ tampered = 0
    /\ result = <<None, None>>
    /\ agent_outcomes = <<>>
    /\ record = <<>>
    /\ error = None
    /\ notified = <<>>
    /\ handed = <<>>
    /\ returned = "NoReturn"
    /\ call = <<>>
    /\ selected = NoAction
    /\ yielded = <<>>
    /\ legacy_outcome = None

\* one call state.check_for_outcome()
CheckOutcome ==
    /\ pc = "Board"
    /\ pc' = "Checked"
    /\ result' = check_for_outcome(board, board_size, token_map)
    /\ UNCHANGED <<agents, identities, instances, board_size, token_map, heap, cycle, current_agent, asked, view,
                   tampered, agent_outcomes, record, error, notified, handed, returned, call,
                   selected, yielded, legacy_outcome>>

SpecBoards == InitBoards /\ [][CheckOutcome]_vars


(***************************************************************************)
(* Game(agents, board_size) followed by play().                            *)
(***************************************************************************)
\* an instance of Agent (or of a subclass) with its token; token_id is the first
\* element of the list whose token is the same object, agent_id the first
\* element of the list that is this same instance
AgentObject(token, token_id, agent_id) ==
    [type |-> "Agent", token |-> token, token_id |-> token_id, agent_id |-> agent_id]

\* the values passed as `agents`: lists and tuples of agents, a set of agents,
\* a list with a str in it
CtorAgentLists ==
    {PyList("list", <<>>),
     PyList("list", <<AgentObject("X", 1, 1)>>),
     PyList("list", <<AgentObject("X", 1, 1), AgentObject("O", 2, 2)>>),
     PyList("tuple", <<AgentObject("O", 1, 1), AgentObject("X", 2, 2)>>),
     PyList("list", <<AgentObject("X", 1, 1), AgentObject("X", 1, 1)>>),
     PyList("list", <<AgentObject("X", 1, 1), AgentObject("X", 1, 2)>>),
     PyList("list", <<AgentObject("X", 1, 1), AgentObject("X", 2, 2)>>),
     PyList("list", <<AgentObject("X", 1, 1), AgentObject("O", 2, 2), AgentObject("Z", 3, 3)>>),
     PyList("list", <<AgentObject("X", 1, 1), AgentObject("O", 2, 2), AgentObject("X", 1, 1)>>),
     PyList("list", <<AgentObject("X", 1, 1), AgentObject("O", 2, 2), AgentObject("X", 1, 3)>>),
     PyList("tuple", <<AgentObject("Z", 1, 1), AgentObject("Z", 1, 2), AgentObject("Z", 3, 3)>>),
     PyList("set", <<AgentObject("X", 1, 1), AgentObject("O", 2, 2)>>),
     PyList("list", <<AgentObject("X", 1, 1),
                      [type |-> "str", token |-> "O", token_id |-> 2, agent_id |-> 2]>>),
     PyList("list", <<[type |-> "str", token |-> "O", token_id |-> 1, agent_id |-> 1]>>)}

\* the values passed as `board_size`
CtorSizes ==
    {PyList("tuple", <<PyInt(2), PyInt(2)>>), PyList("tuple", <<PyInt(1), PyInt(2)>>),
     PyList("list", <<PyInt(2), PyInt(1)>>), PyList("tuple", <<PyInt(1), PyInt(1)>>),
     PyList("tuple", <<PyInt(0), PyInt(2)>>), PyList("tuple", <<PyInt(2), PyInt(0)>>),
     PyList("tuple", <<PyInt(2)>>), PyList("tuple", <<PyInt(2), PyInt(2), PyInt(2)>>),
     PyList("tuple", <<PyStr("a"), PyInt(2)>>), PyList("tuple", <<PyInt(2), PyNone>>),
     PyList("tuple", <<PyInt(0), PyStr("a")>>), PyList("tuple", <<PyBool(TRUE), PyInt(2)>>),
     PyList("set", <<PyInt(2), PyInt(2)>>)}

\* the two checks of Game.__init__ on one element of board_size
SizeElementError(element) ==
    IF ~IsInt(element) THEN "TypeError"
    ELSE IF IntOf(element) < 1 THEN "ValueError"
    ELSE None

\* the checks of Game.__init__ in their order: the error raised, or None
Game_init(ags, size) ==
    IF ~IsListOrTuple(ags) THEN "TypeError"
    ELSE IF Len(ags.items) < 2 THEN "ValueError"
    ELSE IF \E i \in DOMAIN ags.items : ags.items[i].type # "Agent" THEN "TypeError"
    ELSE IF ~IsListOrTuple(size) THEN "TypeError"
    ELSE IF Len(size.items) # 2 THEN "ValueError"
    ELSE IF SizeElementError(size.items[1]) # None THEN SizeElementError(size.items[1])
    ELSE SizeElementError(size.items[2])

\* Game(agents, board_size) has been called: call holds the two arguments
InitCtor ==
    /\ pc = "Constructing"
    /\ agents = <<>>
    /\ identities = <<>>
    /\ instances = <<>>
    /\ board_size = <<0, 0>>
    /\ token_map = <<>>
    /\ heap = <<>>
    /\ cycle = [items |-> <<>>, pos |-> 0]
    /\ current_agent = 0
    /\ asked = <<>>
    /\ view = NoView
    /\ tampered = 0
    /\ result = <<None, None>>
    /\ agent_outcomes = <<>>
    /\ record = <<>>
    /\ error = None
    /\ notified = <<>>
    /\ handed = <<>>
    /\ returned = "NoReturn"
    /\ \E ags \in CtorAgentLists, size \in CtorSizes : call = <<ags, size>>
    /\ selected = NoAction
    /\ yielded = <<>>
    /\ legacy_outcome = None

\* Game.__init__ runs: it raises, or stores the agents and the board size and
\* leaves a Game that play() can be called on
Construct ==
    /\ pc = "Constructing"
    /\ error' = Game_init(call[1], call[2])
    /\ IF error' = None
       THEN /\ pc' = "NotStarted"
            /\ agents' = [a \in DOMAIN call[1].items |-> call[1].items[a].token]
            /\ identities' = [a \in DOMAIN call[1].items |-> call[1].items[a].token_id]
            /\ instances' = [a \in DOMAIN call[1].items |-> call[1].items[a].agent_id]
            /\ board_size' = <<IntOf(call[2].items[1]), IntOf(call[2].items[2])>>
            /\ notified' = [a \in DOMAIN call[1].items |-> 0]
            /\ call' = <<>>
       ELSE /\ pc' = "Rejected"
            /\ UNCHANGED <<agents, identities, instances, board_size, notified, call>>
    /\ UNCHANGED <<token_map, heap, cycle, current_agent, asked, view, tampered, result,
                   agent_outcomes, record, handed, returned, selected, yielded,
                   legacy_outcome>>

\* Construct, then play() on the Game it leaves (no Game is left when it raises)
NextGame ==
    \/ Construct
    \/ pc \notin {"Constructing", "Rejected"} /\ Next

SpecGame == InitCtor /\ [][NextGame]_vars

(***************************************************************************)
(* play() with every agent a RandomAgent.                                  *)
(***************************************************************************)
\* the games of RandomAgents: those of GameSetups, and games in which one agent
\* was built with the token None
RandomSetups ==
    GameSetups \cup {<<<<None, "X">>, <<1, 4>>>>, <<<<"X", None>>, <<2, 2>>>>}

\* RandomAgent.select_action: the columns whose cell in the first n_columns
\* entries of the view's board is None
open_columns(view_board, size) ==
    LET top == PySlice(view_board, 0, size[2], 1)
    IN {index + 1 : index \in {i \in 0..(Min(size[2], Len(top)) - 1) : top[i + 1] = None}}

InitRandom ==
    /\ pc = "NotStarted"
    /\ \E setup \in RandomSetups : agents = setup[1] /\ board_size = setup[2]
    /\ identities \in Identities(agents)
    /\ instances \in Instances(agents, identities)
    /\ token_map = <<>>
    /\ heap = <<>>
    /\ cycle = [items |-> <<>>, pos |-> 0]
    /\ current_agent = 0
    /\ asked = <<>>
    /\ view = NoView
    /\ tampered = 0
    /\ result = <<None, None>>
    /\ agent_outcomes = <<>>
    /\ record = <<>>
    /\ error = None
    /\ notified = [a \in AgentIds(agents) |-> 0]
    /\ handed = <<>>
    /\ returned = "NoReturn"
    /\ call = <<>>
    /\ selected = NoAction
    /\ yielded = <<>>
    /\ legacy_outcome = None

\* the RandomAgent asked returns Action(PLACE, random.choice(open_columns)), and
\* play() goes on from there; random.choice raises IndexError on an empty list
RandomReturns ==
    /\ pc = "Selecting"
    /\ LET columns == open_columns(heap[view.board], view.board_size)
       IN IF columns = {}
          THEN /\ pc' = "Raised"
               /\ error' = "IndexError"
               /\ UNCHANGED <<agents, identities, instances, board_size, token_map, heap, cycle, current_agent,
                              asked, view, tampered, result, agent_outcomes, record,
                              notified, handed, returned, call, selected, yielded,
                              legacy_outcome>>
          ELSE \E column \in columns :
                   AgentReturns([action |-> PLACE, place_column |-> PyInt(column)])

NextRandom ==
    \/ Start
    \/ RandomReturns
    \/ Notify

SpecRandom == InitRandom /\ [][NextRandom]_vars

(***************************************************************************)
(* _generate_lines on boards of every size up to MaxDim x MaxDim.          *)
(***************************************************************************)
MaxDim == 8

\* a board whose cell i holds the id of position i, so that a line shows its cells
IndexBoard(size) == [i \in 0..(size[1] * size[2] - 1) |-> InternalId(i)]

InitLines ==
    /\ pc = "Lines"
    /\ agents = <<>>
    /\ identities = <<>>
    /\ instances = <<>>
    /\ board_size \in (1..MaxDim) \X (1..MaxDim)
    /\ token_map = <<>>
    /\ heap = OnlyBoard(IndexBoard(board_size))
    /\ cycle = [items |-> <<>>, pos |-> 0]
    /\ current_agent = 0
    /\ asked = <<>>
    /\ view = NoView
    /\ tampered = 0
    /\ result = <<None, None>>
    /\ agent_outcomes = <<>>
    /\ record = <<>>
    /\ error = None
    /\ notified = <<>>
    /\ handed = <<>>
    /\ returned = "NoReturn"
    /\ call = <<>>
    /\ selected = NoAction
    /\ yielded = <<>>
    /\ legacy_outcome = None

\* list(state._generate_lines())
GenerateLines ==
    /\ pc = "Lines"
    /\ pc' = "Yielded"
    /\ yielded' = generate_lines(board, board_size)
    /\ UNCHANGED <<agents, identities, instances, board_size, token_map, heap, cycle, current_agent, asked, view,
                   tampered, result, agent_outcomes, record, error, notified, handed,
                   returned, call, selected, legacy_outcome>>

SpecLines == InitLines /\ [][GenerateLines]_vars

(***************************************************************************)
(* src/connect4.py: the single-file State and Game.                        *)
(***************************************************************************)
REMOVE == "REMOVE"
\* a value of action['action'] that is neither Actions.PLACE nor Actions.REMOVE
LegacyOtherKind == "OTHER"
Draw == "Draw"
Win == "Win"
Loss == "Loss"

\* State.internal_tokens[:len(external_tokens)] for up to three tokens
internal_tokens == <<"a", "b", "c">>

\* the default of State.__init__'s size parameter, the size Game.play gets
DefaultSize == <<6, 7>>

\* State.__init__: {k: v for k, v in zip(external_tokens, internal_tokens)}
LegacyTokenMap(external_tokens) ==
    [t \in Range(external_tokens) |->
        LET last == CHOOSE i \in DOMAIN external_tokens :
                        /\ external_tokens[i] = t
                        /\ \A j \in DOMAIN external_tokens :
                               external_tokens[j] = t => j <= i
        IN internal_tokens[last]]

\* State._place_token(column, token): [board, is_successful, error]
_place_token(b, size, tm, column, token) ==
    LET n_rows == size[1]
        n_columns == size[2]
        scan == ScanColumn(b, n_rows, n_columns, column, 0, -1)
    IN IF scan.error # None THEN [board |-> b, is_successful |-> FALSE, error |-> scan.error]
       ELSE IF scan.lowest = -1 THEN [board |-> b, is_successful |-> FALSE, error |-> None]
       ELSE IF token \notin DOMAIN tm
       THEN [board |-> b, is_successful |-> FALSE, error |-> "KeyError"]
       ELSE [board |-> PySet(b, scan.lowest * n_columns + column - 1, tm[token]),
             is_successful |-> TRUE, error |-> None]

\* the scan of _remove_token from `row` on: [highest, error]; highest is -1 for None
RECURSIVE ScanFilled(_, _, _, _, _)
ScanFilled(b, n_rows, n_columns, column, row) ==
    IF row >= n_rows THEN [highest |-> -1, error |-> None]
    ELSE LET i == row * n_columns + column - 1
         IN IF ~PyInRange(b, i) THEN [highest |-> -1, error |-> "IndexError"]
            ELSE IF PyGet(b, i) # None THEN [highest |-> row, error |-> None]
            ELSE ScanFilled(b, n_rows, n_columns, column, row + 1)

\* State._remove_token(column): [board, is_successful, error]
_remove_token(b, size, column) ==
    LET n_columns == size[2]
        scan == ScanFilled(b, size[1], n_columns, column, 0)
    IN IF scan.error # None THEN [board |-> b, is_successful |-> FALSE, error |-> scan.error]
       ELSE IF scan.highest = -1 THEN [board |-> b, is_successful |-> FALSE, error |-> None]
       ELSE [board |-> PySet(b, scan.highest * n_columns + column - 1, None),
             is_successful |-> TRUE, error |-> None]

\* State.execute_action(action): [board, is_successful, error]
execute_action(b, size, tm, action) ==
    IF action.action = PLACE THEN _place_token(b, size, tm, action.column, action.token)
    ELSE IF action.action = REMOVE THEN _remove_token(b, size, action.column)
    ELSE [board |-> b, is_successful |-> FALSE, error |-> None]

\* an outcome of check_for_end: None, or the dict of the tokens' results
NoOutcome == [none |-> TRUE, results |-> <<>>]
OutcomeDict(d) == [none |-> FALSE, results |-> d]

\* `if outcome:` in Game.play: neither None nor an empty dict
Truthy(o) == ~o.none /\ DOMAIN o.results # {}

\* State.check_for_end()
check_for_end(b, size, tm) ==
    IF None \notin Range(b) THEN OutcomeDict([token \in DOMAIN tm |-> Draw])
    ELSE LET lines == generate_lines(b, size)
             winning == {k \in DOMAIN lines : LineWins(lines[k])}
         IN IF winning # {}
            THEN LET first == CHOOSE k \in winning : \A j \in winning : k <= j
                 IN OutcomeDict([token \in DOMAIN tm |->
                                    IF lines[first][1] = tm[token] THEN Win ELSE Loss])
            ELSE NoOutcome

\* State.expose_to_agent(): a deep copy, its board a list of its own
expose_to_agent(hp, size, ref) ==
    [view |-> [board_size |-> size, board |-> ref],
     heap |-> OnlyBoard(hp[BoardRef]) @@ (ref :> hp[BoardRef])]

\* the agent lists the single-file Game is built with
LegacyAgentLists == {<<"X", "O">>}

\* the columns a CLIAgent answers with: it returns int(input(...)) unchecked, any
\* integer. Those within MaxLegacyColumn of 0 on either side (column 0 and the
\* negative ones reach cells through Python's negative indices), the column
\* right of the board, and the column so far left that no index of the board
\* is left for it
MaxLegacyColumn == 1
LegacyColumns ==
    (-MaxLegacyColumn)..MaxLegacyColumn
        \cup {DefaultSize[2] + 1, -(DefaultSize[1] * DefaultSize[2]) - 1}
\* the dicts CLIAgent.select_action returns: a PLACE of the agent's own token
\* on the column typed
LegacyActions(token) == [action : {PLACE}, column : LegacyColumns, token : {token}]

\* what CLIAgent.select_action raises instead of returning: int() of a line
\* that is not a number (ValueError), input() at the end of the input (EOFError)
LegacySelectErrors == {"ValueError", "EOFError"}

\* the select_action calls of one play() the model follows
MaxLegacyTurns == 7

\* the top of the loop: next(agents), state.expose_to_agent(), select_action is called
LegacyLoopTop(cyc, hp) ==
    LET n == NextAgent(cyc)
        ev == expose_to_agent(hp, board_size, Len(asked) + 1)
    IN /\ cycle' = n.cycle
       /\ current_agent' = n.agent
       /\ asked' = Append(asked, n.agent)
       /\ view' = ev.view
       /\ heap' = ev.heap
       /\ pc' = "LegacySelecting"

\* Game.__init__ has stored the agents
InitLegacy ==
    /\ pc = "LegacyNotStarted"
    /\ agents \in LegacyAgentLists
    /\ identities \in Identities(agents)
    /\ instances \in Instances(agents, identities)
    /\ board_size = DefaultSize
    /\ token_map = <<>>
    /\ heap = <<>>
    /\ cycle = [items |-> <<>>, pos |-> 0]
    /\ current_agent = 0
    /\ asked = <<>>
    /\ view = NoView
    /\ tampered = 0
    /\ result = <<None, None>>
    /\ agent_outcomes = <<>>
    /\ record = <<>>
    /\ error = None
    /\ notified = [a \in AgentIds(agents) |-> 0]
    /\ handed = <<>>
    /\ returned = NoOutcome
    /\ call = <<>>
    /\ selected = NoAction
    /\ yielded = <<>>
    /\ legacy_outcome = NoOutcome

\* play() up to the first select_action call
LegacyStart ==
    /\ pc = "LegacyNotStarted"
    /\ \E sample \in Samples(agents) :
         /\ token_map' = LegacyTokenMap(agents)
         /\ LegacyLoopTop([items |-> sample, pos |-> 0], OnlyBoard(EmptyBoard(board_size)))
    /\ UNCHANGED <<agents, identities, instances, board_size, tampered, result, agent_outcomes, record, error,
                   notified, handed, returned, call, selected, yielded, legacy_outcome>>

\* select_action returns `action`: play() from there to the next call into an agent
LegacyAgentReturns(action) ==
    /\ pc = "LegacySelecting"
    /\ Len(asked) <= MaxLegacyTurns
    /\ selected' = action
    /\ LET executed == execute_action(board, board_size, token_map, action)
           outcome == check_for_end(executed.board, board_size, token_map)
       IN IF executed.error # None
          THEN /\ pc' = "Raised"
               /\ error' = executed.error
               /\ heap' = OnlyBoard(executed.board)
               /\ UNCHANGED <<cycle, current_agent, asked, view, legacy_outcome>>
          ELSE /\ legacy_outcome' = outcome
               /\ UNCHANGED error
               /\ IF Truthy(outcome)
                  THEN /\ pc' = "LegacyNotifying"
                       /\ heap' = OnlyBoard(executed.board)
                       /\ UNCHANGED <<cycle, current_agent, asked, view>>
                  ELSE LegacyLoopTop(cycle, OnlyBoard(executed.board))
    /\ UNCHANGED <<agents, identities, instances, board_size, token_map, tampered, result, agent_outcomes, record,
                   notified, handed, returned, call, yielded>>

\* select_action raises `raised` instead of returning, which ends play()
LegacyAgentRaises(raised) ==
    /\ pc = "LegacySelecting"
    /\ Len(asked) <= MaxLegacyTurns
    /\ pc' = "Raised"
    /\ error' = raised
    /\ heap' = OnlyBoard(board)
    /\ UNCHANGED <<agents, identities, instances, board_size, token_map, cycle, current_agent, asked, view,
                   tampered, result, agent_outcomes, record, notified, handed, returned,
                   call, selected, yielded, legacy_outcome>>

\* the loop over self.agents after the game loop: the next notify_outcome call;
\* after the last one play() returns the outcome
LegacyNotify ==
    /\ pc = "LegacyNotifying"
    /\ LET a == Len(handed) + 1
       IN /\ notified' = [notified EXCEPT ![a] = @ + 1]
          /\ handed' = Append(handed, legacy_outcome)
          /\ IF a = Len(agents)
             THEN pc' = "LegacyReturned" /\ returned' = legacy_outcome
             ELSE pc' = "LegacyNotifying" /\ UNCHANGED returned
    /\ UNCHANGED <<agents, identities, instances, board_size, token_map, heap, cycle, current_agent, asked, view,
                   tampered, result, agent_outcomes, record, error, call, selected, yielded,
                   legacy_outcome>>

NextLegacy ==
    \/ LegacyStart
    \/ /\ pc = "LegacySelecting"
       /\ \E action \in LegacyActions(agents[current_agent]) : LegacyAgentReturns(action)
    \/ \E raised \in LegacySelectErrors : LegacyAgentRaises(raised)
    \/ LegacyNotify

SpecLegacy == InitLegacy /\ [][NextLegacy]_vars

(***************************************************************************)
(* The single-file State used directly: execute_action, then check_for_end.*)
(***************************************************************************)
\* the sizes State(external_tokens, size) is built with
LegacySizes == {<<1, 4>>, <<4, 1>>, <<2, 4>>, <<2, 2>>}

\* the actions handed to execute_action
LegacyStateActions(size, tokens) ==
    [action : {PLACE, REMOVE, LegacyOtherKind}, column : AgentColumns(size),
     token : Range(tokens)]

InitLegacyState ==
    /\ pc = "LegacyState"
    /\ agents = BoardTokens
    /\ identities = <<>>
    /\ instances = <<>>
    /\ board_size \in LegacySizes
    /\ token_map = LegacyTokenMap(agents)
    /\ heap = OnlyBoard(EmptyBoard(board_size))
    /\ cycle = [items |-> <<>>, pos |-> 0]
    /\ current_agent = 0
    /\ asked = <<>>
    /\ view = NoView
    /\ tampered = 0
    /\ result = <<None, None>>
    /\ agent_outcomes = <<>>
    /\ record = <<>>
    /\ error = None
    /\ notified = <<>>
    /\ handed = <<>>
    /\ returned = NoOutcome
    /\ call = <<>>
    /\ selected = NoAction
    /\ yielded = <<>>
    /\ legacy_outcome = NoOutcome

\* one call state.execute_action(action); call keeps what it returned
LegacyExecute(action) ==
    /\ pc = "LegacyState"
    /\ pc' = "LegacyExecuted"
    /\ selected' = action
    /\ LET executed == execute_action(board, board_size, token_map, action)
       IN /\ heap' = OnlyBoard(executed.board)
          /\ error' = executed.error
          /\ call' = <<executed.is_successful>>
    /\ UNCHANGED <<agents, identities, instances, board_size, token_map, cycle, current_agent, asked, view,
                   tampered, result, agent_outcomes, record, notified, handed, returned,
                   yielded, legacy_outcome>>

\* one call state.check_for_end()
LegacyCheck ==
    /\ pc = "LegacyExecuted"
    /\ pc' = "LegacyState"
    /\ legacy_outcome' = check_for_end(board, board_size, token_map)
    /\ UNCHANGED <<agents, identities, instances, board_size, token_map, heap, cycle, current_agent, asked, view,
                   tampered, result, agent_outcomes, record, error, notified, handed,
                   returned, call, selected, yielded>>

NextLegacyState ==
    \/ \E action \in LegacyStateActions(board_size, agents) : LegacyExecute(action)
    \/ LegacyCheck

SpecLegacyState == InitLegacyState /\ [][NextLegacyState]_vars

(***************************************************************************)
(* Properties                                                              *)
(***************************************************************************)
\* the cell of row `row` (0-based) and column `column` (1-based) of a board
Cell(b, size, row, column) == b[row * size[2] + column - 1]

\* the rows of `column` that are empty
OpenRows(b, size, column) == {row \in 0..(size[1] - 1) : Cell(b, size, row, column) = None}

\* a line of four cells, all occupied and equal
FourAlike(line) ==
    /\ Len(line) = 4
    /\ \A i \in 1..4 : line[i] # None /\ line[i] = line[1]

\* the positions, in scan order, of the generated lines that are four alike
WinningLines(b, size) ==
    LET lines == generate_lines(b, size)
    IN {k \in DOMAIN lines : FourAlike(lines[k])}

FirstOf(S) == CHOOSE k \in S : \A j \in S : k <= j

\* C1: check_for_outcome reports WIN exactly when some generated line holds four
\* identical non-empty cells, DRAW exactly when no line wins and no cell is empty,
\* and None otherwise; on WIN the token returned is the external token mapped to
\* the id in the first winning line of the scan.
C1_OutcomeOfBoard ==
    pc = "Checked" =>
        LET wins == WinningLines(board, board_size)
            full == \A i \in DOMAIN board : board[i] # None
        IN /\ result[1] = WIN <=> wins # {}
           /\ result[1] = DRAW <=> (wins = {} /\ full)
           /\ result[1] = None <=> (wins = {} /\ ~full)
           /\ result[1] = WIN =>
                  /\ result[2] \in DOMAIN token_map
                  /\ token_map[result[2]] =
                         generate_lines(board, board_size)[FirstOf(wins)][1]
           /\ result[1] # WIN => result[2] = None

\* C1 witness: a checked board with winning lines of two different tokens
C1_Witness ==
    /\ pc = "Checked"
    /\ result[1] = WIN
    /\ LET lines == generate_lines(board, board_size)
       IN \E j, k \in WinningLines(board, board_size) : lines[j][1] # lines[k][1]

\* C2: from every board reached by place_token calls, a call on a column that is
\* not full raises nothing and changes exactly one cell: the open cell of that
\* column with the greatest row index becomes the id of the token.
C2_PlaceLowestOpen ==
    pc = "State" =>
        \A column \in 1..board_size[2], token \in Range(agents) :
            LET open == OpenRows(board, board_size, column)
                placed == place_token(board, board_size, token_map, column, token)
                target == CHOOSE row \in open : \A r \in open : r <= row
            IN open # {} =>
                   /\ placed.error = None
                   /\ Cell(placed.board, board_size, target, column) = token_map[token]
                   /\ \A i \in DOMAIN board :
                          i # target * board_size[2] + column - 1 => placed.board[i] = board[i]

\* C2 witness: the last call stacked a token on an occupied cell of a column
\* that still has open cells above it
C2_Witness ==
    /\ pc = "State"
    /\ Len(call) = 2
    /\ error = None
    /\ LET open == OpenRows(board, board_size, call[1])
       IN /\ open # {}
          /\ Cardinality(open) + 2 <= board_size[1]
          /\ \A row \in 0..(board_size[1] - 1) :
                 row \notin open => \A r \in open : r < row

\* C3: from every board reached by place_token calls, a call on a column whose
\* cells are all occupied raises ActionError and leaves every cell as it was.
C3_FullColumnRejected ==
    pc = "State" =>
        \A column \in 1..board_size[2], token \in Range(agents) :
            LET placed == place_token(board, board_size, token_map, column, token)
            IN OpenRows(board, board_size, column) = {} =>
                   /\ placed.error = "ActionError"
                   /\ placed.board = board

\* C3 witness: the last call was made on a full column and raised ActionError
C3_Witness ==
    /\ pc = "State"
    /\ Len(call) = 2
    /\ error = "ActionError"
    /\ OpenRows(board, board_size, call[1]) = {}

\* C10: a place_token call with a column below 1 or above n_columns raises
\* ActionError and leaves the board unchanged.
C10_InvalidColumnRejected ==
    [][(Len(call') = 2 /\ (call'[1] < 1 \/ call'[1] > board_size[2]))
           => (error' = "ActionError" /\ board' = board)]_vars


\* the number of occupied cells of a board
Occupied(b) == Cardinality({i \in DOMAIN b : b[i] # None})

\* the board the first n entries of a record produce from the empty board, each
\* entry placed by place_token under the token map tm
RECURSIVE Replay(_, _, _, _)
Replay(rec, n, size, tm) ==
    IF n = 0 THEN EmptyBoard(size)
    ELSE place_token(Replay(rec, n - 1, size, tm), size, tm,
                     IntOf(rec[n][2].place_column), rec[n][1]).board

\* every token standing for itself: Replay under it gives the board of owners' tokens
OwnTokens == [t \in Tokens |-> t]

InPlay == pc \in {"Selecting", "Raised", "Notifying", "Returned"}
Terminal == result[1] = WIN \/ result[1] = DRAW

\* the ids found in the winning lines of a board
WinningIds(b, size) ==
    LET lines == generate_lines(b, size)
    IN {lines[k][1] : k \in WinningLines(b, size)}

\* C4: when play() has left the loop the result is WIN or DRAW and every agent's
\* result is set: on WIN exactly the agents whose token owns the winning line
\* have WIN and all the others LOSE, on DRAW all have DRAW; while an agent is
\* being asked for an action every result is still None.
C4_ResultsSet ==
    /\ pc \in {"Notifying", "Returned"} =>
           /\ Terminal
           /\ result[1] = WIN =>
                  /\ WinningIds(board, board_size) # {}
                  /\ \A a \in AgentIds(agents) :
                         agent_outcomes[instances[a]] =
                             IF token_map[agents[a]] \in WinningIds(board, board_size)
                             THEN WIN ELSE LOSE
           /\ result[1] = DRAW =>
                  /\ WinningIds(board, board_size) = {}
                  /\ \A a \in AgentIds(agents) : agent_outcomes[instances[a]] = DRAW
    /\ pc = "Selecting" => \A a \in AgentIds(agents) : agent_outcomes[instances[a]] = None

C5_Order ==
    InPlay =>
        /\ Len(cycle.items) = Len(agents)
        /\ \A a \in AgentIds(agents) : \E i \in 1..Len(agents) : cycle.items[i] = a
        /\ \A n \in 1..Len(asked) : asked[n] = cycle.items[((n - 1) % Len(agents)) + 1]
        /\ current_agent = asked[Len(asked)]

\* C5: the order sampled when play() starts is a permutation of the agents and
\* never changes, and the agent asked on turn n is its element ((n-1) mod k).
C5_FixedCyclicOrder ==
    /\ []C5_Order
    /\ [][InPlay => cycle'.items = cycle.items]_vars

\* C5 witness: three agents, and the first of the order is asked a second time
C5_Witness ==
    /\ pc = "Selecting"
    /\ Len(agents) = 3
    /\ Len(asked) = 4
    /\ asked[4] = asked[1]
    /\ asked[2] # asked[1] /\ asked[3] # asked[1] /\ asked[3] # asked[2]

\* C6: the record has one entry per successful placement, which is one per
\* occupied cell; entry i is the token of the agent asked on turn i with the
\* action it returned, and placing the entries in order gives the board; an
\* action that was rejected or failed left no entry.
C6_RecordMatchesPlacements ==
    InPlay =>
        /\ Len(record) = Occupied(board)
        /\ Len(record) = IF pc \in {"Selecting", "Raised"} THEN Len(asked) - 1 ELSE Len(asked)
        /\ \A i \in 1..Len(record) :
               /\ record[i][1] = agents[asked[i]]
               /\ record[i][2].action = PLACE
               /\ IsInt(record[i][2].place_column)
               /\ IntOf(record[i][2].place_column) \in 1..board_size[2]
        /\ Replay(record, Len(record), board_size, token_map) = board

\* C6 witness: the fifth action went to the column the first four filled
C6_Witness ==
    /\ pc = "Raised"
    /\ error = "ActionError"
    /\ Len(record) = 4
    /\ Len(asked) = 5

C7_View ==
    pc = "Selecting" =>
        /\ view.board # BoardRef
        /\ view.board_size = board_size
        /\ \A i \in DOMAIN board : board[i] \in {None} \cup Range(token_map)
        /\ DOMAIN heap[view.board] = DOMAIN board
        /\ \A i \in DOMAIN board : heap[view.board][i] \in {None} \cup Range(agents)
        /\ tampered = 0 => heap[view.board] = Replay(record, Len(record), board_size, OwnTokens)

\* C7: the view an agent is handed is a list of its own that holds, cell for
\* cell, the token of the agent that placed there or None, never an internal
\* id; a write the agent makes to it leaves the board as it was, and so every
\* later view shows the placements alone.
C7_ViewIsTranslatedCopy ==
    /\ []C7_View
    /\ [][tampered' > tampered => board' = board]_vars

\* C7 witness: the agent holds a view it has changed while the board holds tokens
C7_Witness ==
    /\ pc = "Selecting"
    /\ tampered = 1
    /\ Len(record) >= 3
    /\ heap[view.board] # ViewBoard(token_map, board)

\* the indices of Game._agents at which the Agent object at index a is listed
Listings(a) == {b \in AgentIds(agents) : instances[b] = instances[a]}

\* the notify_outcome calls made so far on the Agent object at index a
RECURSIVE NotifyCalls(_)
NotifyCalls(S) ==
    IF S = {} THEN 0
    ELSE LET b == CHOOSE x \in S : TRUE
         IN notified[b] + NotifyCalls(S \ {b})

\* no agent is notified before the result is terminal and the per-agent results
\* are recorded; what an agent is handed is the Outcome; no agent is being
\* asked once the result is terminal
C8_Order ==
    /\ (\E a \in DOMAIN notified : notified[a] > 0) =>
           /\ Terminal
           /\ \A b \in AgentIds(agents) : agent_outcomes[instances[b]] # None
    /\ \A i \in 1..Len(handed) :
           handed[i] = [agent_outcomes |-> agent_outcomes, record |-> record]
    /\ (InPlay /\ Terminal) => pc # "Selecting"

\* once the result is terminal no agent is asked and nothing is placed
C8_AfterTerminal ==
    (InPlay /\ Terminal) =>
        /\ asked' = asked
        /\ board' = board
        /\ record' = record
        /\ agent_outcomes' = agent_outcomes
        /\ result' = result

\* C8 as stated: in every run of play(), one that ends with an exception
\* included, every agent has been notified exactly once when the run has ended;
\* no agent is notified twice or before the terminal result is recorded, and
\* once the result is terminal no agent is asked and nothing is placed.
C8_NotifiedInEveryRun ==
    /\ [](/\ C8_Order
          /\ \A a \in DOMAIN notified : NotifyCalls(Listings(a)) <= 1
          /\ pc \in {"Returned", "Raised"} =>
                 \A a \in AgentIds(agents) : NotifyCalls(Listings(a)) = 1)
    /\ [][C8_AfterTerminal]_vars

\* C8 amended: in every run in which play() returns, notify_outcome has been
\* invoked once for every entry of the agent list, which is exactly once on
\* every agent that is listed once (an Agent object listed k times has been
\* invoked k times); a run that an exception ends before the result is
\* terminal has notified no agent, and a run that a notify_outcome call ends
\* by raising has notified, once each, the entries up to that one in
\* registration order; no entry is notified twice, none before the terminal
\* result and the per-agent results are recorded, and once the result is
\* terminal no agent is asked for an action and neither the board nor the
\* record changes.
C8_NotifyOnceAfterTerminal ==
    /\ [](/\ C8_Order
          /\ \A a \in DOMAIN notified :
                 /\ notified[a] <= 1
                 /\ NotifyCalls(Listings(a)) <= Cardinality(Listings(a))
          /\ pc = "Returned" =>
                 \A a \in AgentIds(agents) :
                     /\ notified[a] = 1
                     /\ NotifyCalls(Listings(a)) = Cardinality(Listings(a))
                     /\ Listings(a) = {a} => NotifyCalls(Listings(a)) = 1
          /\ (pc = "Raised" /\ ~Terminal) =>
                 \A a \in AgentIds(agents) : notified[a] = 0
          /\ (pc = "Raised" /\ Terminal) =>
                 \E last \in AgentIds(agents) :
                     \A a \in AgentIds(agents) :
                         notified[a] = IF a <= last THEN 1 ELSE 0)
    /\ [][C8_AfterTerminal]_vars

\* C8 witness: a drawn game has returned with every agent notified
C8_Witness ==
    /\ pc = "Returned"
    /\ result[1] = DRAW
    /\ \A a \in AgentIds(agents) : notified[a] = 1

\* C9: when play() has returned, the value it returned is the Outcome that was
\* handed to the agents.
C9_PlayReturnsOutcome ==
    pc = "Returned" =>
        /\ returned # None
        /\ returned = handed[Len(handed)]


\* C11: a Game whose agents do not all carry different tokens is rejected by the
\* constructor, so whenever a Game exists its tokens are pairwise distinct and,
\* once play() has built the State, the token map has one entry per agent and
\* no id twice.
C11_DuplicateTokensRejected ==
    pc \notin {"Constructing", "Rejected"} =>
        /\ \A a, b \in AgentIds(agents) : a # b => agents[a] # agents[b]
        /\ InPlay =>
               /\ Cardinality(DOMAIN token_map) = Len(agents)
               /\ \A t, u \in DOMAIN token_map : t # u => token_map[t] # token_map[u]


\* an action play() must refuse whatever the board: not a PLACE, or a column off the board
StructurallyInvalid(a, size) ==
    \/ a.action # PLACE
    \/ /\ IsInt(a.place_column)
       /\ (IntOf(a.place_column) < 1 \/ IntOf(a.place_column) > size[2])

\* C12: when select_action returns a structurally invalid action, play() raises
\* ValueError at once: the board, the record, the per-agent results (all still
\* None), the agents asked and the last place_token call are as before; and
\* nothing happens after play() has raised.
C12_InvalidActionIsFatal ==
    [][/\ pc # "Raised"
       /\ (selected' # selected /\ StructurallyInvalid(selected', board_size)) =>
              /\ pc' = "Raised"
              /\ error' = "ValueError"
              /\ board' = board
              /\ record' = record
              /\ \A a \in AgentIds(agents) : agent_outcomes'[instances[a]] = None
              /\ asked' = asked
              /\ call' = call
              /\ notified' = notified]_vars

\* C12 witness: after two placements an agent named the column right of the
\* board and play() raised ValueError
C12_Witness ==
    /\ pc = "Raised"
    /\ error = "ValueError"
    /\ selected.action = PLACE
    /\ selected.place_column = PyInt(board_size[2] + 1)
    /\ Len(record) = 2


\* C13: when the agent returns a PLACE on a column of the board that is full,
\* play() ends with an error: the board is as before and no further agent is
\* asked (stated for Game.play of src/connect4.py).
C13_FullColumnIsSignalled ==
    [][(/\ pc = "LegacySelecting"
        /\ selected'.action = PLACE
        /\ selected'.column \in 1..board_size[2]
        /\ OpenRows(board, board_size, selected'.column) = {}) =>
           /\ pc' = "Raised"
           /\ error' # None
           /\ asked' = asked
           /\ board' = board]_vars


\* the row and column steps of the four families, in the order rows, columns,
\* down-right diagonals, down-left diagonals
Directions == <<<<0, 1>>, <<1, 0>>, <<1, 1>>, <<1, -1>>>>

\* the four cells from (row, column), both 0-based, along family f lie on the board
Fits(size, f, row, column) ==
    \A k \in 0..3 :
        /\ row + k * Directions[f][1] \in 0..(size[1] - 1)
        /\ column + k * Directions[f][2] \in 0..(size[2] - 1)

\* the ids IndexBoard holds in those four cells
Run(size, f, row, column) ==
    [k \in 1..4 |-> InternalId((row + (k - 1) * Directions[f][1]) * size[2]
                               + column + (k - 1) * Directions[f][2])]

\* the starts of the runs of family f that fit
Starts(size, f) ==
    {rc \in (0..(size[1] - 1)) \X (0..(size[2] - 1)) : Fits(size, f, rc[1], rc[2])}

\* the families a yielded line is a fitting run of
FamiliesOf(size, line) ==
    {f \in 1..4 : \E rc \in Starts(size, f) : line = Run(size, f, rc[1], rc[2])}

\* C14: for every board size up to MaxDim x MaxDim, _generate_lines yields only
\* runs of 4 in-board collinear cells with unit spacing (none across a row
\* edge), yields every such run of a row, a column, a down-right and a down-left
\* diagonal exactly once, and yields the families in that order.
C14_LinesAreTheFittingRuns ==
    pc = "Yielded" =>
        /\ \A k \in DOMAIN yielded :
               Len(yielded[k]) = 4 /\ FamiliesOf(board_size, yielded[k]) # {}
        /\ \A f \in 1..4 : \A rc \in Starts(board_size, f) :
               Cardinality({k \in DOMAIN yielded :
                               yielded[k] = Run(board_size, f, rc[1], rc[2])}) = 1
        /\ \A k \in 2..Len(yielded) :
               \A f \in FamiliesOf(board_size, yielded[k - 1]) :
                   \A g \in FamiliesOf(board_size, yielded[k]) : f <= g

\* C14 witness: the 5 x 4 board gave 5 rows, 8 columns and 2 + 2 diagonals
C14_Witness ==
    /\ pc = "Yielded"
    /\ board_size = <<5, 4>>
    /\ Len(yielded) = 17
    /\ \A f \in 1..4 : \E k \in DOMAIN yielded : f \in FamiliesOf(board_size, yielded[k])


\* C15: when check_for_end follows the placement that filled the last empty cell
\* and the placed token owns a four-in-a-row, the outcome is a dict in which an
\* owner of a line has Win (and so is not the all-Draw dict) (stated for
\* State.check_for_end of src/connect4.py).
C15_WinOnLastCell ==
    (/\ pc = "LegacyState"
     /\ selected.action = PLACE
     /\ call = <<TRUE>>
     /\ None \notin Range(board)
     /\ token_map[selected.token] \in WinningIds(board, board_size)) =>
        /\ ~legacy_outcome.none
        /\ \E t \in DOMAIN token_map :
               /\ token_map[t] \in WinningIds(board, board_size)
               /\ legacy_outcome.results[t] = Win


\* the tokens of the agents are pairwise distinct
TokensDistinct == \A a, b \in AgentIds(agents) : a # b => agents[a] # agents[b]

\* C16: on every board reached during play() with pairwise distinct tokens at
\* most one id owns a line of four, and when one does it is the id of the token
\* of the most recent placement, which is the winner play() has as its result.
C16_OnlyLastPlacerWins ==
    (InPlay /\ TokensDistinct) =>
        /\ Cardinality(WinningIds(board, board_size)) <= 1
        /\ WinningIds(board, board_size) # {} =>
               /\ Len(record) >= 1
               /\ WinningIds(board, board_size) = {token_map[record[Len(record)][1]]}
               /\ result = <<WIN, record[Len(record)][1]>>

\* C16 witness: the seventh placement of a two-agent game completed a line
C16_Witness ==
    /\ InPlay
    /\ TokensDistinct
    /\ Len(record) = 7
    /\ WinningIds(board, board_size) = {token_map[record[7][1]]}


\* C17: after any sequence of place_token calls with columns of the board, made
\* on the empty board, every column is gap-free (under an occupied cell every
\* cell is occupied), and a column has no open cell exactly when its top-row
\* cell is occupied.
C17_ColumnsGapFree ==
    pc = "State" =>
        \A column \in 1..board_size[2] :
            /\ \A row \in 0..(board_size[1] - 1) :
                   Cell(board, board_size, row, column) # None =>
                       \A below \in (row + 1)..(board_size[1] - 1) :
                           Cell(board, board_size, below, column) # None
            /\ OpenRows(board, board_size, column) = {}
                   <=> Cell(board, board_size, 0, column) # None

\* C17 witness: a call has failed on a full column while another column holds
\* tokens under an open cell
C17_Witness ==
    /\ pc = "State"
    /\ error = "ActionError"
    /\ OpenRows(board, board_size, call[1]) = {}
    /\ \E column \in 1..board_size[2] :
           /\ OpenRows(board, board_size, column) # {}
           /\ Cardinality(OpenRows(board, board_size, column)) <= board_size[1] - 2


\* C18: whenever a RandomAgent is asked during play() it returns a PLACE on a
\* column of the board that has an open cell, and play() does not raise (neither
\* in the agent, for want of an open column, nor on the action).
C18_RandomAgentPlaysOpenColumn ==
    [][pc = "Selecting" =>
           /\ pc' # "Raised"
           /\ ValidateAction(selected', board_size) = None
           /\ OpenRows(board, board_size, IntOf(selected'.place_column)) # {}]_vars


\* play() refuses the action: its structural checks or place_token raise
Rejected(a) ==
    \/ ValidateAction(a, board_size) # None
    \/ place_token(board, board_size, token_map, IntOf(a.place_column),
                   agents[current_agent]).error # None

\* the cells of the board
Capacity == board_size[1] * board_size[2]

\* what holds in every state of play(): one record entry per token on the board,
\* at most rows x columns of them, and no agent being asked once the board is full
C19_Bounded ==
    InPlay =>
        /\ Len(record) = Occupied(board)
        /\ Len(record) <= Capacity
        /\ None \notin Range(board) => Terminal /\ pc \in {"Notifying", "Returned"}
        /\ pc = "Selecting" => ~Terminal /\ Len(asked) = Len(record) + 1

\* one iteration of the loop (the agent's return to the next call into an agent):
\* a rejected action ends play() with an error, any other adds exactly one token
\* and one record entry and leaves the loop exactly when the result is WIN or DRAW
C19_Iteration ==
    (pc = "Selecting" /\ tampered' # tampered + 1) =>
        IF Rejected(selected')
        THEN pc' = "Raised" /\ error' # None /\ record' = record /\ asked' = asked
        ELSE /\ Len(record') = Len(record) + 1
             /\ Occupied(board') = Occupied(board) + 1
             /\ IF result'[1] \in {WIN, DRAW}
                THEN pc' = "Notifying" /\ asked' = asked
                ELSE pc' = "Selecting" /\ Len(asked') = Len(asked) + 1

\* C19: play() terminates whatever the agents return: every iteration either
\* ends play() with an error or places one more token, there are never more
\* than rows x columns placements, the placement that fills the board gives
\* WIN or DRAW and leaves the loop (no agent is asked on a full board), the
\* notifications are one per agent, and nothing follows a raise or the return.
C19_PlayTerminates ==
    /\ [](C19_Bounded /\ (pc = "Notifying" => Len(handed) < Len(agents)))
    /\ [][/\ pc \notin {"Raised", "Returned"}
          /\ C19_Iteration
          /\ pc = "Notifying" => Len(handed') = Len(handed) + 1]_vars

\* C19 witness: play() has returned after the placements filled the board
\* without a line
C19_Witness ==
    /\ pc = "Returned"
    /\ Len(record) = Capacity
    /\ None \notin Range(board)
    /\ result[1] = DRAW

====
